---------------------------- MODULE Spec2Model ----------------------------
(***************************************************************************)
(* Model of the Milan rental-listing scrapers:                             *)
(*   src/scraper.py                        FacebookScraper,                *)
(*                                         GoogleSheetsManager, main       *)
(*   src/facebook_nextdoor_scraper.py      FacebookGroupsScraper,          *)
(*                                         NextdoorScraper, main           *)
(*   src/scraper_subito_bakeca_idealista.py  Subito/Bakeca/Idealista       *)
(*                                                                         *)
(* Texts are TLA+ strings; a character is a string of length one.  The     *)
(* regular expressions of the source are modelled by what re.search does   *)
(* on them (leftmost match, greedy quantifiers, backtracking).             *)
(***************************************************************************)
EXTENDS Integers, Sequences, FiniteSets, TLC

VARIABLES
    text,       \* SpecText: the argument handed to a text extractor
    ret,        \* SpecText: the last extractor call and what it returned
    entry,      \* Spec: what is run, a scraper's scrape method or a main
    mainPc,     \* where the main that runs is
    log,        \* what that main has printed
    agg,        \* the main's aggregate list (`listings`, `all_listings`)
    pc,         \* per scraper: where its scrape call is
    listings,   \* per scraper: the result list it appends to
    seen_urls,  \* per scraper: self.seen_urls
    taken,      \* per scraper: the candidates its loops have taken so far
    browser,    \* per scraper: "none", "open" or "closed"
    contexts,   \* per scraper: browser contexts opened and not yet closed
    group,      \* FacebookScraper: index of the group the loop is at
    sink        \* GoogleSheetsManager: its service, the calls of
                \* request.execute(), the rows in the sheet, the result

textVars == <<text, ret>>
scrapeVars ==
    <<entry, mainPc, log, agg, pc, listings, seen_urls, taken, browser, contexts,
      group, sink>>
vars == <<text, ret, entry, mainPc, log, agg, pc, listings, seen_urls, taken,
          browser, contexts, group, sink>>

----------------------------------------------------------------------------
(* Bounds of the model *)

\* texts are built from at most MaxChunks chunks of PriceChunks
MaxChunks == 3
\* zone texts are built from at most MaxZoneChunks chunks of ZoneChunks
MaxZoneChunks == 2
\* a scraper run takes at most MaxItems candidates (anchors, posts)
MaxItems == 3

----------------------------------------------------------------------------
(* Characters and strings (str.lower, `in`, str.replace) *)

Char(s, i) == SubSeq(s, i, i)

UPPER == "ABCDEFGHIJKLMNOPQRSTUVWXYZ"
LOWER == "abcdefghijklmnopqrstuvwxyz"
DIGITS == "0123456789"

\* str.lower() on one character, as a table from the upper-case letters
LowerTable ==
    [c \in {Char(UPPER, i) : i \in 1..Len(UPPER)} |->
        Char(LOWER, CHOOSE i \in 1..Len(UPPER) : Char(UPPER, i) = c)]

LowerChar(c) == IF c \in DOMAIN LowerTable THEN LowerTable[c] ELSE c

DigitValue ==
    [c \in {Char(DIGITS, i) : i \in 1..Len(DIGITS)} |->
        (CHOOSE i \in 1..Len(DIGITS) : Char(DIGITS, i) = c) - 1]

RECURSIVE Lower(_)
Lower(s) ==
    IF s = "" THEN "" ELSE LowerChar(Char(s, 1)) \o Lower(Tail(s))

\* Python's `w in s`
Contains(s, w) ==
    \E i \in 1..(Len(s) - Len(w) + 1) : SubSeq(s, i, i + Len(w) - 1) = w

\* Python's s.startswith(w)
StartsWith(s, w) == Len(s) >= Len(w) /\ SubSeq(s, 1, Len(w)) = w

\* Python's s.replace(',', '.')
RECURSIVE ReplaceComma(_)
ReplaceComma(s) ==
    IF s = "" THEN ""
    ELSE (IF Char(s, 1) = "," THEN "." ELSE Char(s, 1)) \o ReplaceComma(Tail(s))

IsDigit(c) == c \in DOMAIN DigitValue
IsSpace(c) == c \in {" ", "\t", "\n"}
IsSep(c) == c \in {".", ","}

----------------------------------------------------------------------------
(* float(): a decimal kept exactly, as its integer digits without leading  *)
(* zeros and its fraction digits without trailing zeros.  For the digit    *)
(* counts of the model the comparison of two such decimals is the          *)
(* comparison of the floats.                                               *)

None == [kind |-> "None", ip |-> "", fd |-> ""]
ValueError == [kind |-> "ValueError", ip |-> "", fd |-> ""]

RECURSIVE StripLeadingZeros(_)
StripLeadingZeros(d) ==
    IF Len(d) > 1 /\ Char(d, 1) = "0" THEN StripLeadingZeros(Tail(d)) ELSE d

RECURSIVE StripTrailingZeros(_)
StripTrailingZeros(d) ==
    IF d # "" /\ Char(d, Len(d)) = "0"
    THEN StripTrailingZeros(SubSeq(d, 1, Len(d) - 1))
    ELSE d

AllDigits(d) == \A i \in 1..Len(d) : IsDigit(Char(d, i))

\* float(price_str) for a price_str of digits with at most one '.'; anything
\* else (a ',' left in it) raises ValueError
float(s) ==
    LET dots == {i \in 1..Len(s) : Char(s, i) = "."}
        dot == IF dots = {} THEN Len(s) + 1 ELSE CHOOSE i \in dots : TRUE
        ip == SubSeq(s, 1, dot - 1)
        fd == SubSeq(s, dot + 1, Len(s))
    IN  IF Cardinality(dots) <= 1 /\ AllDigits(ip) /\ AllDigits(fd)
           /\ (ip # "" \/ fd # "")
        THEN [kind |-> "float",
              ip |-> StripLeadingZeros(IF ip = "" THEN "0" ELSE ip),
              fd |-> StripTrailingZeros(fd)]
        ELSE ValueError

RECURSIVE NatOf(_)
NatOf(d) ==
    IF d = "" THEN 0
    ELSE 10 * NatOf(SubSeq(d, 1, Len(d) - 1)) + DigitValue[Char(d, Len(d))]

\* price <= limit, for a float price and an integer limit below 10^9
LeLimit(price, limit) ==
    /\ Len(price.ip) <= 9
    /\ \/ NatOf(price.ip) < limit
       \/ NatOf(price.ip) = limit /\ price.fd = ""

\* Python's truth value of a float: 0.0 is false
Truthy(price) == ~(price.ip = "0" /\ price.fd = "")

----------------------------------------------------------------------------
(* re.search for the price patterns.  A pattern is a record: an optional   *)
(* literal pre followed by white space, the captured number (a digit run   *)
(* and an optional fraction: a separator and frac digits; frac = 0 stands  *)
(* for one or more digits), then optional white space and a literal post.  *)
(* pre or post is "" when the pattern has none.                            *)

NoMatch == "NoMatch"

RECURSIVE DigitRun(_, _)
DigitRun(s, i) ==
    IF i <= Len(s) /\ IsDigit(Char(s, i)) THEN 1 + DigitRun(s, i + 1) ELSE 0

RECURSIVE SkipSpaces(_, _)
SkipSpaces(s, i) ==
    IF i <= Len(s) /\ IsSpace(Char(s, i)) THEN SkipSpaces(s, i + 1) ELSE i

\* optional white space, then lit, at position i (lit starts with no space,
\* so the greedy skip is exact)
LitAfterSpaces(s, i, lit) ==
    LET q == SkipSpaces(s, i)
    IN  lit = "" \/ (q + Len(lit) - 1 <= Len(s) /\ SubSeq(s, q, q + Len(lit) - 1) = lit)

\* The match of the pattern that starts at position i: its group(1), or
\* NoMatch.  The digit run is taken whole (what follows a shorter take is a
\* digit, which no separator, white space or post accepts), and the optional
\* fraction is tried first.
MatchAt(p, s, i) ==
    LET a == IF p.pre = "" THEN i ELSE SkipSpaces(s, i + Len(p.pre))
        m == DigitRun(s, a)
        b == a + m
        fl == IF b <= Len(s) /\ IsSep(Char(s, b))
              THEN (IF p.frac = 2
                    THEN (IF DigitRun(s, b + 1) >= 2 THEN 2 ELSE 0)
                    ELSE DigitRun(s, b + 1))
              ELSE 0
    IN  IF p.pre # "" /\ ~StartsWith(SubSeq(s, i, Len(s)), p.pre) THEN NoMatch
        ELSE IF m = 0 THEN NoMatch
        ELSE IF fl > 0 /\ LitAfterSpaces(s, b + 1 + fl, p.post)
             THEN SubSeq(s, a, b + fl)
        ELSE IF LitAfterSpaces(s, b, p.post) THEN SubSeq(s, a, b - 1)
        ELSE NoMatch

\* re.search(p, s).group(1): the match at the leftmost position that has one
re_search(p, s) ==
    LET hits == {i \in 1..Len(s) : MatchAt(p, s, i) # NoMatch}
    IN  IF hits = {} THEN NoMatch
        ELSE MatchAt(p, s, CHOOSE i \in hits : \A j \in hits : i <= j)

P_SYM_NUM == [pre |-> "€", post |-> "", frac |-> 2]
P_NUM_SYM == [pre |-> "", post |-> "€", frac |-> 2]
P_NUM_EURO == [pre |-> "", post |-> "euro", frac |-> 2]
P_NUM_EUR == [pre |-> "", post |-> "eur", frac |-> 2]
\* the title pattern of the marketplace scrapers: any number of fraction digits
P_TITLE_PRICE == [pre |-> "", post |-> "€", frac |-> 0]

----------------------------------------------------------------------------
(* Program constants *)

PRICE_LIMIT == 600
FN_PRICE_LIMIT == 600
ACCOMMODATION_TYPES == <<"monolocale", "stanza", "studio", "room", "camera">>
FN_ACCOMMODATION_TYPES == <<"monolocale", "stanza", "studio", "room", "camera">>

----------------------------------------------------------------------------
(* Text extractors *)

\* PriceOfMatch without the replace(',', '.')
PriceOfMatch_NoReplace(p, s) ==
    IF re_search(p, s) = NoMatch THEN [kind |-> NoMatch, ip |-> "", fd |-> ""]
    ELSE float(re_search(p, s))

\* One turn of `for pattern in patterns`: the match's group(1) with ',' made
\* '.', given to float().
PriceOfMatch(p, s) ==
    IF re_search(p, s) = NoMatch THEN [kind |-> NoMatch, ip |-> "", fd |-> ""]
    ELSE float(ReplaceComma(re_search(p, s)))

\* The loop of the two ceiling-agnostic extract_price: the first pattern
\* that matches and parses decides; a ValueError moves on to the next one.
RECURSIVE FirstPrice(_, _, _)
FirstPrice(patterns, s, k) ==
    IF k > Len(patterns) THEN None
    ELSE LET v == PriceOfMatch(patterns[k], s)
         IN  IF v.kind = "float" THEN v
             ELSE FirstPrice(patterns, s, k + 1)

\* The loop of FacebookGroupsScraper.extract_price: a match above the limit
\* is not returned and the loop goes on to the next pattern.
RECURSIVE FirstPriceWithin(_, _, _)
FirstPriceWithin(patterns, s, k) ==
    IF k > Len(patterns) THEN None
    ELSE LET v == PriceOfMatch(patterns[k], s)
         IN  IF v.kind = "float" /\ LeLimit(v, FN_PRICE_LIMIT) THEN v
             ELSE FirstPriceWithin(patterns, s, k + 1)

FacebookScraper_patterns == <<P_SYM_NUM, P_NUM_SYM, P_NUM_EURO, P_NUM_EUR>>
FacebookGroupsScraper_patterns == <<P_SYM_NUM, P_NUM_SYM, P_NUM_EURO, P_NUM_EUR>>
NextdoorScraper_patterns == <<P_SYM_NUM, P_NUM_SYM, P_NUM_EURO>>

FacebookScraper_extract_price(t) ==
    IF t = "" THEN None
    ELSE FirstPrice(FacebookScraper_patterns, Lower(t), 1)

FacebookGroupsScraper_extract_price(t) ==
    IF t = "" THEN None
    ELSE FirstPriceWithin(FacebookGroupsScraper_patterns, Lower(t), 1)

NextdoorScraper_extract_price(t) ==
    IF t = "" THEN None
    ELSE FirstPrice(NextdoorScraper_patterns, Lower(t), 1)

\* any(acc_type in s for acc_type in types)
HasValidType(types, s) == \E k \in 1..Len(types) : Contains(s, types[k])

\* is_valid_listing with the .lower() of combined left out
FacebookScraper_is_valid_listing_NoLower(t, title) ==
    LET combined == t \o " " \o title
        price == FacebookScraper_extract_price(combined)
    IN  HasValidType(ACCOMMODATION_TYPES, combined)
            /\ price # None /\ LeLimit(price, PRICE_LIMIT)

\* FacebookScraper.is_valid_listing(text, title): both tests read
\* f"{text} {title}".lower()
FacebookScraper_is_valid_listing(t, title) ==
    LET combined == Lower(t \o " " \o title)
        price == FacebookScraper_extract_price(combined)
    IN  IF ~HasValidType(ACCOMMODATION_TYPES, combined) THEN FALSE
        ELSE IF price = None \/ ~LeLimit(price, PRICE_LIMIT) THEN FALSE
        ELSE TRUE

\* FacebookGroupsScraper.is_valid_listing(text): the type test reads
\* text.lower(), the price test reads text
FacebookGroupsScraper_is_valid_listing(t) ==
    LET text_lower == Lower(t)
        price == FacebookGroupsScraper_extract_price(t)
    IN  IF ~HasValidType(FN_ACCOMMODATION_TYPES, text_lower) THEN FALSE
        ELSE IF price = None \/ ~LeLimit(price, FN_PRICE_LIMIT) THEN FALSE
        ELSE TRUE

FacebookScraper_zones ==
    << "Duomo", "Centro", "Navigli", "Ticinese", "Porta Romana",
       "Porta Vittoria", "Porta Monforte", "Porta Venezia", "Garibaldi",
       "Porta Nuova", "Moscova", "Brera", "Sant'Ambrogio", "Magenta",
       "Cairoli", "Cordusio", "Lanza", "Vercelli", "Pagano", "Conciliazione",
       "Cadorna", "Bocconi", "Gratosoglio", "De Angeli", "Wagner", "Pagano",
       "Buonarroti", "Moscatelli", "Nolo", "Isola", "Pastrone", "Stazione",
       "Centrale", "Lambrate", "Cologno", "Monza", "Brianza", "Vimercate" >>

FacebookGroupsScraper_zones ==
    << "Duomo", "Centro", "Navigli", "Ticinese", "Porta Romana",
       "Brera", "Nolo", "Isola", "Lambrate", "Garibaldi",
       "Magenta", "Sant'Ambrogio", "Cadorna", "Lanza", "Corso Como" >>

\* zone.lower() of every entry
FacebookScraper_zones_lower ==
    [k \in DOMAIN FacebookScraper_zones |-> Lower(FacebookScraper_zones[k])]
FacebookGroupsScraper_zones_lower ==
    [k \in DOMAIN FacebookGroupsScraper_zones |-> Lower(FacebookGroupsScraper_zones[k])]

\* `for zone in zones: if zone.lower() in text_lower: return zone`
RECURSIVE ZoneLoop(_, _, _, _)
ZoneLoop(zones, zones_lower, text_lower, k) ==
    IF k > Len(zones) THEN ""
    ELSE IF Contains(text_lower, zones_lower[k]) THEN zones[k]
    ELSE ZoneLoop(zones, zones_lower, text_lower, k + 1)

\* extract_zone with the text compared as it is written
FacebookScraper_extract_zone_NoLower(t) ==
    ZoneLoop(FacebookScraper_zones, FacebookScraper_zones_lower, t, 1)

FacebookScraper_extract_zone(t) ==
    ZoneLoop(FacebookScraper_zones, FacebookScraper_zones_lower, Lower(t), 1)

FacebookGroupsScraper_extract_zone(t) ==
    ZoneLoop(FacebookGroupsScraper_zones, FacebookGroupsScraper_zones_lower, Lower(t), 1)

----------------------------------------------------------------------------
(* Listings and candidates *)

Marketplaces == {"Subito", "Bakeca", "Idealista"}
Scrapers == Marketplaces \cup {"FacebookGroups", "Nextdoor", "Facebook"}

\* A candidate found on a page: an anchor (marketplaces) or a post.  url is
\* its href, NoneUrl when get_attribute gives None; fails says that reading
\* the element raises (it is gone from the page).
NoneUrl == "<None>"
ItemUrls == {NoneUrl, "", "/a", "https://h/b"}
ItemTexts ==
    { "Stanza affitto 550€\nprivato",
      "monolocale rent 900€",
      "Stanza affitto 1.200€",
      "bilocale affitto €600",
      " room rent " }
Items ==
    [url : ItemUrls, text : ItemTexts, fails : {FALSE}]
        \cup {[url |-> "", text |-> "", fails |-> TRUE]}

TITLE_CAP == 200
Take(s, k) == SubSeq(s, 1, IF Len(s) < k THEN Len(s) ELSE k)

\* str.strip()
RECURSIVE Strip(_)
Strip(s) ==
    IF s # "" /\ IsSpace(Char(s, 1)) THEN Strip(Tail(s))
    ELSE IF s # "" /\ IsSpace(Char(s, Len(s))) THEN Strip(SubSeq(s, 1, Len(s) - 1))
    ELSE s

\* text.split('\n')[0]
FirstLine(s) ==
    LET nl == {i \in 1..Len(s) : Char(s, i) = "\n"}
    IN  IF nl = {} THEN s
        ELSE SubSeq(s, 1, (CHOOSE i \in nl : \A j \in nl : i <= j) - 1)

\* str(price) of a float: the decimal with at least one fraction digit
FloatStr(price) == price.ip \o "." \o (IF price.fd = "" THEN "0" ELSE price.fd)

\* The record a scraper appends.  Telefono and Email are left out of the
\* model: they are "" in the marketplace scrapers and the output of
\* extract_phone and extract_email elsewhere, which no property here reads.
Listing(platform, title, prezzo, zona, url) ==
    [Platform |-> platform, Titolo |-> title, Prezzo |-> prezzo,
     Zona |-> zona, URL |-> url]

Urls(ls) == {ls[i].URL : i \in 1..Len(ls)}

----------------------------------------------------------------------------
(* SubitoScraper, BakecaScraper, IdealistaScraper *)

BaseUrl(s) ==
    CASE s = "Subito" -> "https://www.subito.it"
      [] s = "Bakeca" -> "https://www.bakeca.it"
      [] s = "Idealista" -> "https://www.idealista.it"

\* items[:20], items[:20], items[:15]
ItemCap(s) == IF s = "Idealista" THEN 15 ELSE 20
SUBITO_PRICE_CEILING == 600

\* the filter on the title: the type words, and "privato" on Idealista
TitleAccepted(s, title_clean) ==
    LET t == Lower(title_clean)
        typed == Contains(t, "monolocale") \/ Contains(t, "stanza")
    IN  IF s = "Idealista" THEN Contains(t, "privato") /\ typed ELSE typed

\* `if price <= 600` without the test
PriceAccepted_NoCeiling(price) == TRUE

\* `if price <= 600`
PriceAccepted(price) == LeLimit(price, SUBITO_PRICE_CEILING)

\* What one turn of a loop yields: no record, or the record built.
Skip(platform) == [keep |-> FALSE, listing |-> Listing(platform, "", "", "", "")]
Kept(l) == [keep |-> TRUE, listing |-> l]

\* the tests on the title and on the price read from it, and the record
MarketplaceRecord(s, url, title_clean, price) ==
    IF ~TitleAccepted(s, title_clean) THEN Skip(s)
    ELSE IF price.kind # "float" THEN Skip(s)
    ELSE IF ~PriceAccepted(price) THEN Skip(s)
    ELSE IF url = NoneUrl THEN Skip(s)
    ELSE Kept(Listing(s, Take(title_clean, TITLE_CAP), "€" \o FloatStr(price), "",
                      IF StartsWith(url, "http") THEN url ELSE BaseUrl(s) \o url))

MarketplaceTitled(s, url, title_clean) ==
    MarketplaceRecord(s, url, title_clean, PriceOfMatch(P_TITLE_PRICE, title_clean))

\* What one anchor yields.  An exception in the turn (the element is gone,
\* url is None when the record is built) is caught and the anchor skipped.
MarketplaceCandidate(s, item) ==
    IF item.fails THEN Skip(s) ELSE MarketplaceTitled(s, item.url, Strip(item.text))

AppendKept(ls, c) == IF c.keep THEN Append(ls, c.listing) ELSE ls

\* One turn of `for item in items[:20]`: the list after it.
MarketplaceTurn(s, ls, item) == AppendKept(ls, MarketplaceCandidate(s, item))

\* a name that no assignment has bound yet
Unbound == [bound |-> FALSE, items |-> <<>>]
Bound(ls) == [bound |-> TRUE, items |-> ls]

InitScrapers ==
    /\ mainPc = "none"
    /\ log = <<>>
    /\ agg = Unbound
    /\ pc = [s \in Scrapers |-> "idle"]
    /\ listings = [s \in Scrapers |-> <<>>]
    /\ seen_urls = [s \in Scrapers |-> {}]
    /\ taken = [s \in Scrapers |-> 0]
    /\ browser = [s \in Scrapers |-> "none"]
    /\ contexts = [s \in Scrapers |-> 0]
    /\ group = 0
    /\ sink = [service |-> "unset", attempts |-> 0, rows |-> <<>>, ret |-> "none"]

\* browser.close() leaving the contexts of the browser as they are
OpenAfterBrowserClose_Left(k) == k

\* browser.close() closes the browser with every context still open in it:
\* of k open contexts none is left
OpenAfterBrowserClose(k) == 0

\* pc[s] moves to `to`; nothing else of the scrapers changes
Jump(s, to) == pc' = [pc EXCEPT ![s] = to]

\* async_playwright() entered, chromium.launch succeeds
M_Launch(s) ==
    /\ pc[s] = "launch"
    /\ browser' = [browser EXCEPT ![s] = "open"]
    /\ Jump(s, "new_context")
    /\ UNCHANGED <<sink, text, ret, entry, mainPc, log, agg, listings, seen_urls, taken, contexts, group>>

\* chromium.launch raises: it is outside the try, the error leaves scrape
M_LaunchFails(s) ==
    /\ pc[s] = "launch"
    /\ Jump(s, "raised")
    /\ UNCHANGED <<sink, text, ret, entry, mainPc, log, agg, listings, seen_urls, taken, browser, contexts, group>>

\* browser.new_context() and context.new_page() succeed
M_NewContext(s) ==
    /\ pc[s] = "new_context"
    /\ contexts' = [contexts EXCEPT ![s] = @ + 1]
    /\ Jump(s, "goto")
    /\ UNCHANGED <<sink, text, ret, entry, mainPc, log, agg, listings, seen_urls, taken, browser, group>>

\* browser.new_context() raises, outside the try
M_NewContextFails(s) ==
    /\ pc[s] = "new_context"
    /\ Jump(s, "raised")
    /\ UNCHANGED <<sink, text, ret, entry, mainPc, log, agg, listings, seen_urls, taken, browser, contexts, group>>

\* context.new_page() raises, outside the try, with the context open
M_NewPageFails(s) ==
    /\ pc[s] = "new_context"
    /\ contexts' = [contexts EXCEPT ![s] = @ + 1]
    /\ Jump(s, "raised")
    /\ UNCHANGED <<sink, text, ret, entry, mainPc, log, agg, listings, seen_urls, taken, browser, group>>

\* page.goto, wait_for_timeout and query_selector_all succeed
M_PageLoaded(s) ==
    /\ pc[s] = "goto"
    /\ Jump(s, "loop")
    /\ UNCHANGED <<sink, text, ret, entry, mainPc, log, agg, listings, seen_urls, taken, browser, contexts, group>>

\* one of them raises (a navigation timeout, a selector error): caught by
\* the outer except, on to the finally
M_PageFails(s) ==
    /\ pc[s] = "goto"
    /\ Jump(s, "finally")
    /\ UNCHANGED <<sink, text, ret, entry, mainPc, log, agg, listings, seen_urls, taken, browser, contexts, group>>

\* one turn of the loop over the anchors
M_ProcessItem(s) ==
    /\ pc[s] = "loop"
    /\ taken[s] < MaxItems /\ taken[s] < ItemCap(s)
    /\ \E item \in Items :
          listings' = [listings EXCEPT ![s] = MarketplaceTurn(s, @, item)]
    /\ taken' = [taken EXCEPT ![s] = @ + 1]
    /\ UNCHANGED <<sink, text, ret, entry, mainPc, log, agg, pc, seen_urls, browser, contexts, group>>

\* the anchors are exhausted
M_EndLoop(s) ==
    /\ pc[s] = "loop"
    /\ Jump(s, "finally")
    /\ UNCHANGED <<sink, text, ret, entry, mainPc, log, agg, listings, seen_urls, taken, browser, contexts, group>>

\* finally: context.close()
M_CloseContext(s) ==
    /\ pc[s] = "finally"
    /\ contexts' = [contexts EXCEPT ![s] = @ - 1]
    /\ Jump(s, "close_browser")
    /\ UNCHANGED <<sink, text, ret, entry, mainPc, log, agg, listings, seen_urls, taken, browser, group>>

\* context.close() raises in the finally: the error leaves scrape
M_CloseContextFails(s) ==
    /\ pc[s] = "finally"
    /\ Jump(s, "raised")
    /\ UNCHANGED <<sink, text, ret, entry, mainPc, log, agg, listings, seen_urls, taken, browser, contexts, group>>

\* finally: browser.close(), then `return listings`
M_CloseBrowser(s) ==
    /\ pc[s] = "close_browser"
    /\ browser' = [browser EXCEPT ![s] = "closed"]
    /\ contexts' = [contexts EXCEPT ![s] = OpenAfterBrowserClose(@)]
    /\ Jump(s, "returned")
    /\ UNCHANGED <<sink, text, ret, entry, mainPc, log, agg, listings, seen_urls, taken, group>>

\* browser.close() raises in the finally
M_CloseBrowserFails(s) ==
    /\ pc[s] = "close_browser"
    /\ Jump(s, "raised")
    /\ UNCHANGED <<sink, text, ret, entry, mainPc, log, agg, listings, seen_urls, taken, browser, contexts, group>>

----------------------------------------------------------------------------
(* NextdoorScraper.scrape_nextdoor *)

\* the append without self.seen_urls.add(url)
DedupAppend_NoAdd(ls, seen, c) ==
    IF c.keep /\ c.listing.URL # "" /\ c.listing.URL \notin seen
    THEN [ls |-> Append(ls, c.listing), seen |-> seen]
    ELSE [ls |-> ls, seen |-> seen]

\* `if url and url not in self.seen_urls`: append the record, add the URL
DedupAppend(ls, seen, c) ==
    IF c.keep /\ c.listing.URL # "" /\ c.listing.URL \notin seen
    THEN [ls |-> Append(ls, c.listing), seen |-> seen \cup {c.listing.URL}]
    ELSE [ls |-> ls, seen |-> seen]

\* the test on the price and the record
NextdoorRecord(txt, url, price) ==
    IF price = None \/ ~LeLimit(price, FN_PRICE_LIMIT) THEN Skip("Nextdoor")
    ELSE Kept(Listing("Nextdoor",
                      IF txt = "" THEN "" ELSE Take(FirstLine(txt), TITLE_CAP),
                      IF Truthy(price) THEN "€" \o FloatStr(price) ELSE "",
                      "", url))

\* What one post yields before self.seen_urls is consulted.
NextdoorCandidate(post) ==
    IF post.fails THEN Skip("Nextdoor")
    ELSE IF ~Contains(Lower(post.text), "affitto") /\ ~Contains(Lower(post.text), "rent")
         THEN Skip("Nextdoor")
    ELSE NextdoorRecord(post.text, IF post.url = NoneUrl THEN "" ELSE post.url,
                        NextdoorScraper_extract_price(post.text))

\* One turn of `for post in posts`: the list and self.seen_urls after it.
NextdoorTurn(ls, seen, post) == DedupAppend(ls, seen, NextdoorCandidate(post))

\* session.get answers 200 and the page is parsed
N_Fetched ==
    /\ pc["Nextdoor"] = "fetch"
    /\ Jump("Nextdoor", "loop")
    /\ UNCHANGED <<sink, text, ret, entry, mainPc, log, agg, listings, seen_urls, taken, browser, contexts, group>>

\* another status: printed, the empty list is returned
N_FetchStatus ==
    /\ pc["Nextdoor"] = "fetch"
    /\ Jump("Nextdoor", "returned")
    /\ UNCHANGED <<sink, text, ret, entry, mainPc, log, agg, listings, seen_urls, taken, browser, contexts, group>>

\* the request raises (timeout, network): caught by the outer except
N_FetchFails ==
    /\ pc["Nextdoor"] = "fetch"
    /\ Jump("Nextdoor", "returned")
    /\ UNCHANGED <<sink, text, ret, entry, mainPc, log, agg, listings, seen_urls, taken, browser, contexts, group>>

N_ProcessPost ==
    /\ pc["Nextdoor"] = "loop"
    /\ taken["Nextdoor"] < MaxItems
    /\ \E post \in Items :
          LET r == NextdoorTurn(listings["Nextdoor"], seen_urls["Nextdoor"], post)
          IN  /\ listings' = [listings EXCEPT !["Nextdoor"] = r.ls]
              /\ seen_urls' = [seen_urls EXCEPT !["Nextdoor"] = r.seen]
    /\ taken' = [taken EXCEPT !["Nextdoor"] = @ + 1]
    /\ UNCHANGED <<sink, text, ret, entry, mainPc, log, agg, pc, browser, contexts, group>>

\* the posts are exhausted: `return listings`
N_EndLoop ==
    /\ pc["Nextdoor"] = "loop"
    /\ Jump("Nextdoor", "returned")
    /\ UNCHANGED <<sink, text, ret, entry, mainPc, log, agg, listings, seen_urls, taken, browser, contexts, group>>

----------------------------------------------------------------------------
(* FacebookGroupsScraper.scrape_groups: returns its empty local list *)

FG_Return ==
    /\ pc["FacebookGroups"] = "body"
    /\ Jump("FacebookGroups", "returned")
    /\ UNCHANGED <<sink, text, ret, entry, mainPc, log, agg, listings, seen_urls, taken, browser, contexts, group>>

----------------------------------------------------------------------------
(* FacebookScraper.scrape_groups *)

\* len(FACEBOOK_GROUPS) in scraper.py
NUM_GROUPS == 9

\* the listing dict of a valid post
FacebookRecord(txt, url, price) ==
    Kept(Listing("Facebook", Take(FirstLine(txt), TITLE_CAP),
                 IF Truthy(price) THEN "€" \o FloatStr(price) ELSE "",
                 FacebookScraper_extract_zone(txt), url))

\* What one post yields before self.seen_urls is consulted.
FacebookCandidate(post) ==
    IF post.fails THEN Skip("Facebook")
    ELSE IF ~FacebookScraper_is_valid_listing(post.text, "") THEN Skip("Facebook")
    ELSE FacebookRecord(post.text, IF post.url = NoneUrl THEN "" ELSE post.url,
                        FacebookScraper_extract_price(post.text))

\* One turn of `for post in posts`: self.listings and self.seen_urls after it.
FacebookTurn(ls, seen, post) == DedupAppend(ls, seen, FacebookCandidate(post))

F_Launch ==
    /\ pc["Facebook"] = "launch"
    /\ browser' = [browser EXCEPT !["Facebook"] = "open"]
    /\ Jump("Facebook", "next_group")
    /\ UNCHANGED <<sink, text, ret, entry, mainPc, log, agg, listings, seen_urls, taken, contexts, group>>

\* chromium.launch raises, outside every try
F_LaunchFails ==
    /\ pc["Facebook"] = "launch"
    /\ Jump("Facebook", "raised")
    /\ UNCHANGED <<sink, text, ret, entry, mainPc, log, agg, listings, seen_urls, taken, browser, contexts, group>>

\* `for group_url in FACEBOOK_GROUPS`: the next group
F_NextGroup ==
    /\ pc["Facebook"] = "next_group"
    /\ group < NUM_GROUPS
    /\ group' = group + 1
    /\ Jump("Facebook", "new_context")
    /\ UNCHANGED <<sink, text, ret, entry, mainPc, log, agg, listings, seen_urls, taken, browser, contexts>>

F_GroupsDone ==
    /\ pc["Facebook"] = "next_group"
    /\ group = NUM_GROUPS
    /\ Jump("Facebook", "close_browser")
    /\ UNCHANGED <<sink, text, ret, entry, mainPc, log, agg, listings, seen_urls, taken, browser, contexts, group>>

F_NewContext ==
    /\ pc["Facebook"] = "new_context"
    /\ contexts' = [contexts EXCEPT !["Facebook"] = @ + 1]
    /\ Jump("Facebook", "goto")
    /\ UNCHANGED <<sink, text, ret, entry, mainPc, log, agg, listings, seen_urls, taken, browser, group>>

\* browser.new_context raises: the group's except, on to the next group
F_NewContextFails ==
    /\ pc["Facebook"] = "new_context"
    /\ Jump("Facebook", "next_group")
    /\ UNCHANGED <<sink, text, ret, entry, mainPc, log, agg, listings, seen_urls, taken, browser, contexts, group>>

\* context.new_page raises: the group's except, the context stays open
F_NewPageFails ==
    /\ pc["Facebook"] = "new_context"
    /\ contexts' = [contexts EXCEPT !["Facebook"] = @ + 1]
    /\ Jump("Facebook", "next_group")
    /\ UNCHANGED <<sink, text, ret, entry, mainPc, log, agg, listings, seen_urls, taken, browser, group>>

\* page.goto, the scrolls and query_selector_all succeed
F_PageLoaded ==
    /\ pc["Facebook"] = "goto"
    /\ Jump("Facebook", "loop")
    /\ UNCHANGED <<sink, text, ret, entry, mainPc, log, agg, listings, seen_urls, taken, browser, contexts, group>>

\* page.goto times out: context.close(), continue
F_GotoTimeout ==
    /\ pc["Facebook"] = "goto"
    /\ contexts' = [contexts EXCEPT !["Facebook"] = @ - 1]
    /\ Jump("Facebook", "next_group")
    /\ UNCHANGED <<sink, text, ret, entry, mainPc, log, agg, listings, seen_urls, taken, browser, group>>

\* any other error of page.goto, of a scroll or of query_selector_all, or
\* of the context.close() of the timeout handler: the group's except, the
\* context stays open
F_PageFails ==
    /\ pc["Facebook"] = "goto"
    /\ Jump("Facebook", "next_group")
    /\ UNCHANGED <<sink, text, ret, entry, mainPc, log, agg, listings, seen_urls, taken, browser, contexts, group>>

F_ProcessPost ==
    /\ pc["Facebook"] = "loop"
    /\ taken["Facebook"] < MaxItems
    /\ \E post \in Items :
          LET r == FacebookTurn(listings["Facebook"], seen_urls["Facebook"], post)
          IN  /\ listings' = [listings EXCEPT !["Facebook"] = r.ls]
              /\ seen_urls' = [seen_urls EXCEPT !["Facebook"] = r.seen]
    /\ taken' = [taken EXCEPT !["Facebook"] = @ + 1]
    /\ UNCHANGED <<sink, text, ret, entry, mainPc, log, agg, pc, browser, contexts, group>>

\* the posts are exhausted: context.close()
F_EndPosts ==
    /\ pc["Facebook"] = "loop"
    /\ contexts' = [contexts EXCEPT !["Facebook"] = @ - 1]
    /\ Jump("Facebook", "next_group")
    /\ UNCHANGED <<sink, text, ret, entry, mainPc, log, agg, listings, seen_urls, taken, browser, group>>

\* that context.close() raises: the group's except
F_EndPostsCloseFails ==
    /\ pc["Facebook"] = "loop"
    /\ Jump("Facebook", "next_group")
    /\ UNCHANGED <<sink, text, ret, entry, mainPc, log, agg, listings, seen_urls, taken, browser, contexts, group>>

\* browser.close(), then `return self.listings`
F_CloseBrowser ==
    /\ pc["Facebook"] = "close_browser"
    /\ browser' = [browser EXCEPT !["Facebook"] = "closed"]
    /\ contexts' = [contexts EXCEPT !["Facebook"] = OpenAfterBrowserClose(@)]
    /\ Jump("Facebook", "returned")
    /\ UNCHANGED <<sink, text, ret, entry, mainPc, log, agg, listings, seen_urls, taken, group>>

\* browser.close() raises, outside every try
F_CloseBrowserFails ==
    /\ pc["Facebook"] = "close_browser"
    /\ Jump("Facebook", "raised")
    /\ UNCHANGED <<sink, text, ret, entry, mainPc, log, agg, listings, seen_urls, taken, browser, contexts, group>>

----------------------------------------------------------------------------
(* GoogleSheetsManager: __init__, _get_service, append_listings *)

\* The row written for a listing: its fields in the order of the columns
\* (Telefono and Email left out as in Listing).
Row(l) == <<l.Platform, l.Titolo, l.Prezzo, l.Zona, l.URL>>

Rows(ls) == [i \in 1..Len(ls) |-> Row(ls[i])]

\* The lists append_listings is called with: the empty list, one listing,
\* and two listings of different platforms with the same URL.
Batches ==
    { <<>>,
      <<Listing("Subito", "Stanza 550€", "€550.0", "", "https://h/b")>>,
      <<Listing("Subito", "Stanza 550€", "€550.0", "", "https://h/b"),
        Listing("Nextdoor", "Stanza 550€", "€550.0", "", "https://h/b")>> }

\* GoogleSheetsManager() with credentials in the environment: the service is
\* built.  The caller then holds the list it will pass.
Sheets_Configured ==
    /\ entry = "append_listings"
    /\ mainPc = "none"
    /\ mainPc' = "direct"
    /\ sink' = [sink EXCEPT !.service = "ok"]
    /\ \E b \in Batches : agg' = Bound(b)
    /\ UNCHANGED <<text, ret, entry, log, pc, listings, seen_urls, taken, browser, contexts, group>>

\* GoogleSheetsManager() without usable credentials: from_service_account_info
\* raises, the bare except sets credentials to None, _get_service returns None
Sheets_NoCredentials ==
    /\ entry = "append_listings"
    /\ mainPc = "none"
    /\ mainPc' = "direct"
    /\ sink' = [sink EXCEPT !.service = "None"]
    /\ log' = log \o <<"Warning: Could not load service account from environment",
                       "Error: Google credentials not configured">>
    /\ \E b \in Batches : agg' = Bound(b)
    /\ UNCHANGED <<text, ret, entry, pc, listings, seen_urls, taken, browser, contexts, group>>

\* build(...) raises: it is outside the try of _get_service, the error
\* leaves the constructor
Sheets_BuildFails ==
    /\ entry = "append_listings"
    /\ mainPc = "none"
    /\ mainPc' = "raised"
    /\ UNCHANGED <<sink, text, ret, entry, log, agg, pc, listings, seen_urls, taken, browser, contexts, group>>

AppendCalled ==
    /\ entry = "append_listings"
    /\ mainPc = "direct"
    /\ sink.ret = "none"

\* `if not self.service or not listings: return False`
Append_Refused ==
    /\ AppendCalled
    /\ sink.service = "None" \/ agg.items = <<>>
    /\ sink' = [sink EXCEPT !.ret = "False"]
    /\ UNCHANGED <<text, ret, entry, mainPc, log, agg, pc, listings, seen_urls, taken, browser, contexts, group>>

\* one row per listing in the order of the list, request.execute() succeeds
Append_Executed ==
    /\ AppendCalled
    /\ sink.service = "ok" /\ agg.items # <<>>
    /\ sink' = [sink EXCEPT !.attempts = @ + 1,
                            !.rows = @ \o Rows(agg.items),
                            !.ret = "True"]
    /\ log' = Append(log, "Added listings to Google Sheets")
    /\ UNCHANGED <<text, ret, entry, mainPc, agg, pc, listings, seen_urls, taken, browser, contexts, group>>

\* request.execute() raises (an API error): caught, printed, False
Append_ExecuteFails ==
    /\ AppendCalled
    /\ sink.service = "ok" /\ agg.items # <<>>
    /\ sink' = [sink EXCEPT !.attempts = @ + 1, !.ret = "False"]
    /\ log' = Append(log, "Error appending to Google Sheets")
    /\ UNCHANGED <<text, ret, entry, mainPc, agg, pc, listings, seen_urls, taken, browser, contexts, group>>

----------------------------------------------------------------------------
(* Entry points: a scrape method called on a fresh scraper, and the mains *)

StartPc(s) ==
    CASE s \in Marketplaces \cup {"Facebook"} -> "launch"
      [] s = "Nextdoor" -> "fetch"
      [] s = "FacebookGroups" -> "body"

Entries ==
    Scrapers \cup {"scraper.main", "facebook_nextdoor_scraper.main", "append_listings"}

\* `await x` with nothing else scheduled: the caller goes on when the
\* awaited call has returned
Awaited_NoWait(s) == TRUE

Awaited(s) == pc[s] = "returned"

\* scrape() called directly on a new scraper
Call_scrape ==
    /\ entry \in Scrapers
    /\ mainPc = "none"
    /\ mainPc' = "direct"
    /\ Jump(entry, StartPc(entry))
    /\ UNCHANGED <<sink, text, ret, entry, log, agg, listings, seen_urls, taken, browser, contexts, group>>

\* scraper.py main.  Line 292 of scraper.py is indented deeper than line
\* 291 and lines 293-298 stand at column 0 inside the body of main, so the
\* compiler rejects the module with an IndentationError: no statement of the
\* module runs, main included (no message is printed, no scraper is built).
Main_IndentationError ==
    /\ entry = "scraper.main"
    /\ mainPc = "none"
    /\ mainPc' = "IndentationError"
    /\ UNCHANGED <<sink, text, ret, entry, log, agg, pc, listings, seen_urls, taken, browser, contexts, group>>

\* facebook_nextdoor_scraper.py main: the banner, await scrape_facebook_groups()
FN_Main_Start ==
    /\ entry = "facebook_nextdoor_scraper.main"
    /\ mainPc = "none"
    /\ log' = Append(log, "Facebook & Nextdoor Scraper")
    /\ mainPc' = "await_facebook"
    /\ Jump("FacebookGroups", StartPc("FacebookGroups"))
    /\ UNCHANGED <<sink, text, ret, entry, agg, listings, seen_urls, taken, browser, contexts, group>>

\* fb_listings is bound, await scrape_nextdoor()
FN_Main_AwaitNextdoor ==
    /\ mainPc = "await_facebook"
    /\ Awaited("FacebookGroups")
    /\ mainPc' = "await_nextdoor"
    /\ Jump("Nextdoor", StartPc("Nextdoor"))
    /\ UNCHANGED <<sink, text, ret, entry, log, agg, listings, seen_urls, taken, browser, contexts, group>>

\* all_listings = fb_listings + nd_listings, the total is printed
FN_Main_Total ==
    /\ mainPc = "await_nextdoor"
    /\ Awaited("Nextdoor")
    /\ agg' = Bound(listings["FacebookGroups"] \o listings["Nextdoor"])
    /\ log' = Append(log, "Total listings scraped")
    /\ mainPc' = "done"
    /\ UNCHANGED <<sink, text, ret, entry, pc, listings, seen_urls, taken, browser, contexts, group>>

Init ==
    /\ text = ""
    /\ ret = [fn |-> "", val |-> ""]
    /\ entry \in Entries
    /\ InitScrapers

Next ==
    \/ Call_scrape
    \/ \E s \in Marketplaces : M_Launch(s)
    \/ \E s \in Marketplaces : M_LaunchFails(s)
    \/ \E s \in Marketplaces : M_NewContext(s)
    \/ \E s \in Marketplaces : M_NewContextFails(s)
    \/ \E s \in Marketplaces : M_NewPageFails(s)
    \/ \E s \in Marketplaces : M_PageLoaded(s)
    \/ \E s \in Marketplaces : M_PageFails(s)
    \/ \E s \in Marketplaces : M_ProcessItem(s)
    \/ \E s \in Marketplaces : M_EndLoop(s)
    \/ \E s \in Marketplaces : M_CloseContext(s)
    \/ \E s \in Marketplaces : M_CloseContextFails(s)
    \/ \E s \in Marketplaces : M_CloseBrowser(s)
    \/ \E s \in Marketplaces : M_CloseBrowserFails(s)
    \/ N_Fetched
    \/ N_FetchStatus
    \/ N_FetchFails
    \/ N_ProcessPost
    \/ N_EndLoop
    \/ FG_Return
    \/ F_Launch
    \/ F_LaunchFails
    \/ F_NextGroup
    \/ F_GroupsDone
    \/ F_NewContext
    \/ F_NewContextFails
    \/ F_NewPageFails
    \/ F_PageLoaded
    \/ F_GotoTimeout
    \/ F_PageFails
    \/ F_ProcessPost
    \/ F_EndPosts
    \/ F_EndPostsCloseFails
    \/ F_CloseBrowser
    \/ F_CloseBrowserFails
    \/ Main_IndentationError
    \/ Sheets_Configured
    \/ Sheets_NoCredentials
    \/ Sheets_BuildFails
    \/ Append_Refused
    \/ Append_Executed
    \/ Append_ExecuteFails
    \/ FN_Main_Start
    \/ FN_Main_AwaitNextdoor
    \/ FN_Main_Total

Spec == Init /\ [][Next]_vars

----------------------------------------------------------------------------
(* SpecText: the text extractors applied to texts drawn from bounded sets *)

PriceChunks ==
    {"Stanza ", "€", " ", "600", "900", ",50", "1.200€", "50euro", "5eur"}
ZoneChunks ==
    {"Duomo", "centro ", "NAVIGLI ", "Porta ", "Romana", "Corso Como",
     "monza", "via ", "Stazione Centrale "}

RECURSIVE Concats(_, _)
Concats(chunks, n) ==
    IF n = 0 THEN {""}
    ELSE Concats(chunks, n - 1)
            \cup {c \o t : c \in chunks, t \in Concats(chunks, n - 1)}

PriceTexts == Concats(PriceChunks, MaxChunks)
ZoneTexts == Concats(ZoneChunks, MaxZoneChunks)

NoCall == [fn |-> "", val |-> ""]

InitText ==
    /\ text \in PriceTexts \cup ZoneTexts
    /\ ret = NoCall
    /\ InitScrapers
    /\ entry = "none"

Call_FacebookScraper_extract_price ==
    /\ text \in PriceTexts
    /\ ret' = [fn |-> "FacebookScraper.extract_price",
               val |-> FacebookScraper_extract_price(text)]
    /\ UNCHANGED text

Call_FacebookGroupsScraper_extract_price ==
    /\ text \in PriceTexts
    /\ ret' = [fn |-> "FacebookGroupsScraper.extract_price",
               val |-> FacebookGroupsScraper_extract_price(text)]
    /\ UNCHANGED text

Call_NextdoorScraper_extract_price ==
    /\ text \in PriceTexts
    /\ ret' = [fn |-> "NextdoorScraper.extract_price",
               val |-> NextdoorScraper_extract_price(text)]
    /\ UNCHANGED text

\* is_valid_listing(text), as scrape_groups calls it: title keeps its default
Call_FacebookScraper_is_valid_listing ==
    /\ text \in PriceTexts
    /\ ret' = [fn |-> "FacebookScraper.is_valid_listing",
               val |-> FacebookScraper_is_valid_listing(text, "")]
    /\ UNCHANGED text

Call_FacebookGroupsScraper_is_valid_listing ==
    /\ text \in PriceTexts
    /\ ret' = [fn |-> "FacebookGroupsScraper.is_valid_listing",
               val |-> FacebookGroupsScraper_is_valid_listing(text)]
    /\ UNCHANGED text

Call_FacebookScraper_extract_zone ==
    /\ text \in ZoneTexts
    /\ ret' = [fn |-> "FacebookScraper.extract_zone",
               val |-> FacebookScraper_extract_zone(text)]
    /\ UNCHANGED text

Call_FacebookGroupsScraper_extract_zone ==
    /\ text \in ZoneTexts
    /\ ret' = [fn |-> "FacebookGroupsScraper.extract_zone",
               val |-> FacebookGroupsScraper_extract_zone(text)]
    /\ UNCHANGED text

NextText ==
    \/ Call_FacebookScraper_extract_price
    \/ Call_FacebookGroupsScraper_extract_price
    \/ Call_NextdoorScraper_extract_price
    \/ Call_FacebookScraper_is_valid_listing
    \/ Call_FacebookGroupsScraper_is_valid_listing
    \/ Call_FacebookScraper_extract_zone
    \/ Call_FacebookGroupsScraper_extract_zone

SpecText == InitText /\ [][NextText /\ UNCHANGED scrapeVars]_vars

----------------------------------------------------------------------------
(* Properties of the text extractors, under SpecText *)

KeywordSet == {"monolocale", "stanza", "studio", "room", "camera"}
HasKeyword(t) == \E w \in KeywordSet : Contains(Lower(t), w)
Within(price, limit) == price.kind = "float" /\ LeLimit(price, limit)

\* C6: is_valid_listing(text) is true if and only if the lowercased text
\* contains one of the accommodation-type keywords and extract_price(text)
\* yields a price <= 600; in both Facebook classes, each with its own
\* extract_price.  In particular it is false for a text with no keyword.
C6_ValidIffKeywordAndPrice ==
    /\ ret.fn = "FacebookScraper.is_valid_listing" =>
          (ret.val <=> (HasKeyword(text)
                          /\ Within(FacebookScraper_extract_price(text), 600)))
    /\ ret.fn = "FacebookGroupsScraper.is_valid_listing" =>
          (ret.val <=> (HasKeyword(text)
                          /\ Within(FacebookGroupsScraper_extract_price(text), 600)))

\* C6 witness: a text with a keyword in capitals and a price at the ceiling
\* was admitted
C6_Witness ==
    /\ ret.fn = "FacebookScraper.is_valid_listing"
    /\ ret.val = TRUE
    /\ text = "Stanza 600€"

\* The amounts a reader finds in a text: every match of a currency pattern
\* at any position, and an amount whose thousands are grouped by a separator
\* (one to three digits, a separator and exactly three digits) before the
\* euro sign, which stands for a thousand or more.
AllPatterns == {P_SYM_NUM, P_NUM_SYM, P_NUM_EURO, P_NUM_EUR}

MatchAbove(t, limit) ==
    \E p \in AllPatterns : \E i \in 1..Len(t) :
        /\ MatchAt(p, Lower(t), i) # NoMatch
        /\ ~LeLimit(float(ReplaceComma(MatchAt(p, Lower(t), i))), limit)

GroupedThousands(t) ==
    \E i \in 1..Len(t) :
        LET m == DigitRun(t, i)
        IN  /\ m \in 1..3
            /\ (i = 1 \/ ~IsDigit(Char(t, i - 1)))
            /\ i + m <= Len(t) /\ IsSep(Char(t, i + m))
            /\ DigitRun(t, i + m + 1) = 3
            /\ LitAfterSpaces(t, i + m + 4, "€")

CarriesPriceAbove(t, limit) == MatchAbove(t, limit) \/ GroupedThousands(t)

\* C7: a text that carries a price strictly greater than 600 under a
\* recognised currency pattern is never admitted by is_valid_listing, also
\* when it carries a second, lower amount or writes the amount with a
\* thousands separator (1.200€).
C7_AboveCeilingNeverAdmitted ==
    (/\ ret.fn \in {"FacebookScraper.is_valid_listing",
                    "FacebookGroupsScraper.is_valid_listing"}
     /\ CarriesPriceAbove(text, 600))
        => ret.val = FALSE

\* The leftmost amount written as the euro sign, optional white space and
\* digits: its digit run, and a fraction of two digits when a separator and
\* two digits follow.
EuroSites(t) ==
    {i \in 1..Len(t) : Char(t, i) = "€" /\ DigitRun(t, SkipSpaces(t, i + 1)) > 0}

HasEuroAmount(t) == EuroSites(t) # {}

EuroAmount(t) ==
    LET i == CHOOSE k \in EuroSites(t) : \A j \in EuroSites(t) : k <= j
        a == SkipSpaces(t, i + 1)
        b == a + DigitRun(t, a)
        hasFrac == b <= Len(t) /\ IsSep(Char(t, b)) /\ DigitRun(t, b + 1) >= 2
    IN  [kind |-> "float",
         ip |-> StripLeadingZeros(SubSeq(t, a, b - 1)),
         fd |-> IF hasFrac THEN StripTrailingZeros(SubSeq(t, b + 1, b + 2)) ELSE ""]

ExtractPriceCalls ==
    {"FacebookScraper.extract_price", "FacebookGroupsScraper.extract_price",
     "NextdoorScraper.extract_price"}

ZoneHits(zones, t) ==
    {k \in 1..Len(zones) : Contains(Lower(t), Lower(zones[k]))}

FirstZone(zones, t) ==
    zones[CHOOSE k \in ZoneHits(zones, t) : \A j \in ZoneHits(zones, t) : k <= j]

C9_FirstZoneInListOrder ==
    /\ ret.fn = "FacebookScraper.extract_zone" =>
          /\ (ret.val = "" <=> ZoneHits(FacebookScraper_zones, text) = {})
          /\ ret.val # "" => ret.val = FirstZone(FacebookScraper_zones, text)
    /\ ret.fn = "FacebookGroupsScraper.extract_zone" =>
          /\ (ret.val = "" <=> ZoneHits(FacebookGroupsScraper_zones, text) = {})
          /\ ret.val # "" => ret.val = FirstZone(FacebookGroupsScraper_zones, text)

\* C9 witness: two entries in the text, the later one first in the list and
\* the earlier one in capitals
C9_Witness ==
    /\ ret.fn = "FacebookScraper.extract_zone"
    /\ text = "NAVIGLI Duomo"
    /\ ret.val = "Duomo"

----------------------------------------------------------------------------
(* Properties of the scrapers and the mains, under Spec *)

\* the number written after the euro sign in a Prezzo field
PrezzoValue(l) == float(SubSeq(l.Prezzo, 2, Len(l.Prezzo)))

AboveCeiling(price) == price.kind = "float" /\ ~LeLimit(price, 600)

\* a candidate whose price, as the scraper reads it, is above the ceiling
\* yields no record; over every candidate item
AboveCeilingCandidatesDropped ==
    \A item \in Items : ~item.fails =>
        /\ AboveCeiling(PriceOfMatch(P_TITLE_PRICE, Strip(item.text)))
              => \A s \in Marketplaces : ~MarketplaceCandidate(s, item).keep
        /\ AboveCeiling(NextdoorScraper_extract_price(item.text))
              => ~NextdoorCandidate(item).keep
        /\ AboveCeiling(FacebookScraper_extract_price(item.text))
              => ~FacebookCandidate(item).keep

\* C1: every Listing in the list of a per-platform scraper (Subito, Bakeca,
\* Idealista, Nextdoor, Facebook) that carries a price has price <= 600, at
\* every point of the run and so in the list returned; and a candidate whose
\* price is above the ceiling is dropped before a record is built, for every
\* sequence of candidate items.
C1_PricedListingsWithinCeiling ==
    /\ \A s \in Scrapers : \A k \in 1..Len(listings[s]) :
          listings[s][k].Prezzo # "" => Within(PrezzoValue(listings[s][k]), 600)
    /\ AboveCeilingCandidatesDropped

\* C1 witness: SubitoScraper.scrape returned after two anchors, one of them
\* kept with its price of 550 and the other dropped
C1_Witness ==
    /\ pc["Subito"] = "returned"
    /\ taken["Subito"] = 2
    /\ Len(listings["Subito"]) = 1
    /\ listings["Subito"][1].Prezzo = "€550.0"

\* C2: no two Listings in the list of one scraper share a URL, for every
\* per-platform scraper and every sequence of candidate items, a page that
\* repeats a link included.
C2_UrlsDistinctPerScraper ==
    \A s \in Scrapers : \A i, j \in 1..Len(listings[s]) :
        i # j => listings[s][i].URL # listings[s][j].URL

\* a step that changes the list of a scraper appends one record whose URL is
\* not yet in the list and leaves the records already there as they are
AppendsUnseenUrl ==
    \A s \in Scrapers :
        listings'[s] # listings[s] =>
            /\ Len(listings'[s]) = Len(listings[s]) + 1
            /\ SubSeq(listings'[s], 1, Len(listings[s])) = listings[s]
            /\ listings'[s][Len(listings'[s])].URL \notin Urls(listings[s])

\* C3: of two candidates with the same URL processed in one scraper run the
\* first is retained and the later one skipped; the retained record is never
\* replaced by a later candidate with the same URL.
C3_FirstOfSameUrlRetained == [][AppendsUnseenUrl]_vars

\* C4: a failure inside one platform scraper (a navigation timeout, a
\* non-200 status, an element not found, a failure while launching or
\* closing the browser) never leaves that scraper as an exception: no scrape
\* call ends by raising.
C4_NoFailureLeavesAScraper ==
    \A s \in Scrapers : pc[s] # "raised"

MainEnded == mainPc \in {"done", "IndentationError"}

LastTwo(sq) == IF Len(sq) < 2 THEN <<>> ELSE SubSeq(sq, Len(sq) - 1, Len(sq))

\* C5: when no source yields a listing, main of scraper.py still runs to its
\* end normally: the aggregate is the empty sequence and "No listings found"
\* is logged just before the final "Finished".
C5_EmptyRunEndsNormally ==
    (entry = "scraper.main" /\ MainEnded
        /\ \A s \in Scrapers : listings[s] = <<>>)
        => /\ mainPc = "done"
           /\ agg = Bound(<<>>)
           /\ LastTwo(log) = <<"No listings found", "Finished">>

Active == {s \in Scrapers : pc[s] \notin {"idle", "returned", "raised"}}

Mains == {"scraper.main", "facebook_nextdoor_scraper.main"}

OneAtATimeStep ==
    entry \in Mains =>
        /\ Cardinality(Active') <= 1
        /\ pc'["Nextdoor"] # "idle" => pc'["FacebookGroups"] = "returned"
        /\ \A s \in Scrapers :
              (listings'[s] # listings[s] \/ seen_urls'[s] # seen_urls[s])
                  => Active = {s}

\* C10: in main the platform scrapers run one at a time: at no point are two
\* scrapers active together, a scraper is started only when the one before
\* it has returned, and the result list and the seen-set of a scraper change
\* only in a step of that scraper.
C10_OneScraperAtATime == [][OneAtATimeStep]_vars

\* C10 witness: main of facebook_nextdoor_scraper.py ended after the
\* Facebook-groups scraper and then the Nextdoor scraper ran, the second one
\* with a listing
C10_Witness ==
    /\ entry = "facebook_nextdoor_scraper.main"
    /\ mainPc = "done"
    /\ pc["FacebookGroups"] = "returned"
    /\ pc["Nextdoor"] = "returned"
    /\ Len(listings["Nextdoor"]) >= 1
    /\ agg = Bound(listings["Nextdoor"])

\* the lists the scrapers of main returned, joined in the order main runs
\* them (scraper.py lines 290-311)
ReturnedInOrder ==
    listings["Subito"] \o listings["Bakeca"] \o listings["Idealista"]
        \o listings["FacebookGroups"] \o listings["Nextdoor"]

\* C11: the sequence main passes to the sink is the concatenation of the
\* lists the scrapers returned, in the order the scrapers ran, nothing added,
\* removed or reordered (two listings of different platforms with one URL
\* both kept); and the sink writes one row per listing of the sequence it
\* was passed, in that order.
C11_SinkGetsConcatenation ==
    /\ (entry = "scraper.main" /\ MainEnded) => agg = Bound(ReturnedInOrder)
    /\ sink.ret = "True" => sink.rows = Rows(agg.items)

Logged(m) == \E i \in 1..Len(log) : log[i] = m

\* C12: in one run the append is attempted at most once; when it fails for
\* missing credentials or an API error append_listings returns False, the
\* failure is logged and nothing is retried; and main of scraper.py still
\* runs to its end.
C12_AppendOnceAndMainEnds ==
    /\ sink.attempts <= 1
    /\ (sink.ret = "False" /\ agg.items # <<>>) =>
          \/ Logged("Error appending to Google Sheets")
          \/ Logged("Error: Google credentials not configured")
    /\ sink.ret = "False" => sink.rows = <<>>
    /\ (entry = "scraper.main" /\ MainEnded) => mainPc = "done"

Absolute(url) == StartsWith(url, "http://") \/ StartsWith(url, "https://")

\* C13: the URL of every Listing emitted by any scraper is an absolute link
\* (it starts with an http or https scheme), whether the href read from the
\* page was absolute or relative.
C13_EveryUrlAbsolute ==
    \A s \in Scrapers : \A k \in 1..Len(listings[s]) :
        Absolute(listings[s][k].URL)

\* C14: for every text, FacebookScraper.is_valid_listing of scraper.py and
\* FacebookGroupsScraper.is_valid_listing of facebook_nextdoor_scraper.py
\* return the same verdict, although one extract_price enforces the ceiling
\* inside the pattern loop and the other leaves it to the caller.
C14_SameVerdictInBothClasses ==
    /\ ret.fn = "FacebookScraper.is_valid_listing"
          => ret.val = FacebookGroupsScraper_is_valid_listing(text)
    /\ ret.fn = "FacebookGroupsScraper.is_valid_listing"
          => ret.val = FacebookScraper_is_valid_listing(text, "")

BrowserScrapers == Marketplaces \cup {"Facebook"}

SeenScrapers == {"Nextdoor", "Facebook"}

\* a post that raises, or that the filter of the scraper rejects
NextdoorRejects(post) ==
    \/ post.fails
    \/ ~Contains(Lower(post.text), "affitto") /\ ~Contains(Lower(post.text), "rent")
    \/ ~Within(NextdoorScraper_extract_price(post.text), 600)

FacebookRejects(post) ==
    \/ post.fails
    \/ ~HasKeyword(post.text)
    \/ ~Within(FacebookScraper_extract_price(post.text), 600)

\* a list and a seen-set a scraper can hold when the post is taken
HeldList == <<Listing("Nextdoor", "Stanza affitto 550€", "€550.0", "", "/a")>>
HeldSeen == {"/a"}

\* a rejected post leaves the list and the seen-set as they were, for every
\* candidate post, on an empty and on a non-empty list
RejectedPostsChangeNothing ==
    \A post \in Items :
        /\ NextdoorRejects(post) =>
              /\ NextdoorTurn(<<>>, {}, post) = [ls |-> <<>>, seen |-> {}]
              /\ NextdoorTurn(HeldList, HeldSeen, post)
                    = [ls |-> HeldList, seen |-> HeldSeen]
        /\ FacebookRejects(post) =>
              /\ FacebookTurn(<<>>, {}, post) = [ls |-> <<>>, seen |-> {}]
              /\ FacebookTurn(HeldList, HeldSeen, post)
                    = [ls |-> HeldList, seen |-> HeldSeen]

\* C16: in NextdoorScraper and FacebookScraper, after any sequence of
\* processed posts, seen_urls is exactly the set of the URLs of the Listings
\* emitted so far by the instance and no Listing with an empty URL is
\* emitted; a post that fails the filter or raises an error leaves seen_urls
\* and the result list unchanged.
C16_SeenIsUrlsOfEmitted ==
    /\ \A s \in SeenScrapers :
          /\ seen_urls[s] = Urls(listings[s])
          /\ "" \notin Urls(listings[s])
    /\ RejectedPostsChangeNothing

\* C16 witness: scrape_nextdoor returned after three posts, two of them
\* emitted with different URLs and one left out
C16_Witness ==
    /\ pc["Nextdoor"] = "returned"
    /\ taken["Nextdoor"] = 3
    /\ Len(listings["Nextdoor"]) = 2
    /\ seen_urls["Nextdoor"] = {"/a", "https://h/b"}

============================================================================
